---- MODULE Spec2Model ----
(***************************************************************************)
(* State-machine model of the FastAPI application src/src/api/main.py of   *)
(* the sales transcript analysis service.                                  *)
(*                                                                         *)
(* Every endpoint is an `async def` handler; a handler runs on the event   *)
(* loop until it awaits.  The only await in the handlers modelled here is  *)
(* `await file.read()` (main.py:242), which precedes every access to the   *)
(* shared state, so each handler is one atomic action on the module-level  *)
(* state (SESSIONS, USERS, USER_DATA, CHAT_HISTORY, MILVUS_ENABLED and     *)
(* vector_store).                                                          *)
(* Concurrent requests are therefore handler invocations taken in any      *)
(* order.                                                                  *)
(*                                                                         *)
(* TranscriptAnalyzer, MilvusVectorStore, ChatAgent and DocumentProcessor  *)
(* are imported by main.py (lines 25-31) but their code is not part of the *)
(* sources; they are modelled from the specification at their call         *)
(* boundary: what a call returns or raises is a nondeterministic choice.   *)
(***************************************************************************)
EXTENDS Naturals, Sequences, FiniteSets, TLC

VARIABLES
    MILVUS_ENABLED,   \* main.py:85/89, set once at start-up
    store,            \* the records held by vector_store (id -> record)
    uuids,            \* number of uuid.uuid4() values drawn so far
    tokens,           \* number of secrets.token_urlsafe() values drawn so far
    SESSIONS,         \* main.py:34, session token -> username
    USERS,            \* main.py:35, username -> password
    USER_DATA,        \* main.py:36-39, username -> profile
    CHAT_HISTORY,     \* main.py:40, username -> list of chats
    last              \* the request handled last, its outbound calls and its response

vars == <<MILVUS_ENABLED, store, uuids, tokens, SESSIONS, USERS, USER_DATA, CHAT_HISTORY, last>>

analysisVars == <<MILVUS_ENABLED, store>>
chatVars == <<tokens, SESSIONS, USERS, USER_DATA, CHAT_HISTORY>>

(***************************************************************************)
(* Bounds of the model.                                                    *)
(***************************************************************************)
MaxUuid == 1      \* uuid.uuid4() values drawn in one behaviour
MaxTokens == 1    \* session tokens issued in one behaviour
MaxTurns == 2     \* chat turns recorded at one time, over all users
MaxTopK == 2      \* largest top_k a search request carries

(***************************************************************************)
(* Values.                                                                 *)
(***************************************************************************)
None == "<None>"                    \* Python's None; an absent dict key

EmptyMap == [k \in {} |-> None]      \* the empty dict {}

Falsy(x) == x = None \/ x = ""      \* `x or default` takes the default

Uuid(n) == "uuid-" \o ToString(n)   \* the n-th value of str(uuid.uuid4())

Token(n) == "tok-" \o ToString(n)   \* the n-th value of secrets.token_urlsafe(32)

InputType_TEXT == "text"

Transcripts == {"", " ", "call"}    \* request.transcript / extracted text
BlankTexts == {"", " "}             \* texts t with `not t or not t.strip()`
TranscriptIds == {None, "t1"}       \* request.transcript_id
Queries == {"q"}
TopKs == 0..MaxTopK

Filenames == {"a.pdf", "notes"}

\* Path(filename).suffix: the last dot and what follows it, "" without a dot
Suffix(filename) ==
    CASE filename = "a.pdf" -> ".pdf"
      [] filename = "notes" -> ""

Min(a, b) == IF a < b THEN a ELSE b

(***************************************************************************)
(* TranscriptAnalyzer.analyze_transcript, from the specification (4.1): a  *)
(* dict that either carries the analysis or an "error" key.  Empty input   *)
(* is an error without a model call; otherwise the model may be            *)
(* unreachable or its output unparseable.                                  *)
(***************************************************************************)
NoAnalysis == [error |-> None, of |-> None, storage_warning |-> None]

AnalysisOk(text) == [error |-> None, of |-> text, storage_warning |-> None]

AnalysisError(kind) == [error |-> kind, of |-> None, storage_warning |-> None]

analyze_transcript(text) ==
    IF text \in BlankTexts
    THEN {AnalysisError("EmptyInput")}
    ELSE {AnalysisOk(text), AnalysisError("ModelUnreachable"),
          AnalysisError("MalformedModelOutput")}

HasError(analysis_result) == analysis_result.error # None   \* "error" in analysis_result

(***************************************************************************)
(* MilvusVectorStore, from the specification (4.2).                        *)
(***************************************************************************)
\* upsert: the record keyed by id is constructed or overwritten
store_transcript(st, id, text, analysis, source_type) ==
    [i \in DOMAIN st \cup {id} |->
        IF i = id
        THEN [transcript_id |-> id, transcript_text |-> text,
              analysis_result |-> analysis, source_type |-> source_type]
        ELSE st[i]]

\* a call on the store returns, or raises when the backend is unreachable
StoreOutcomes == {"ok", "raise"}

\* the sequences of distinct elements of S of length n
RECURSIVE Arrangements(_, _)
Arrangements(S, n) ==
    IF n = 0 THEN {<<>>}
    ELSE UNION {{<<x>> \o t : t \in Arrangements(S \ {x}, n - 1)} : x \in S}

\* search: at most top_k hits, each a stored record; top_k <= 0 and an empty
\* store give the empty sequence.  The ranking is the embedding's, which the
\* model leaves open (any order of any top_k records).
search_similar_transcripts(st, query_text, top_k) ==
    {[i \in 1..Len(ids) |-> st[ids[i]]] :
        ids \in Arrangements(DOMAIN st, Min(top_k, Cardinality(DOMAIN st)))}

\* point lookup: the record or absent (None), here a sequence of at most one
\* record
get_transcript_by_id(st, id) == IF id \in DOMAIN st THEN <<st[id]>> ELSE <<>>

(***************************************************************************)
(* Responses.                                                              *)
(***************************************************************************)
\* AnalysisResponse(...), status 200
AnalysisResponse(success, transcript_id, transcript, analysis, error, source_type) ==
    [status |-> 200, success |-> success, transcript_id |-> transcript_id,
     transcript |-> transcript, analysis |-> analysis, error |-> error,
     source_type |-> source_type]

\* raise HTTPException(status_code=..., detail=...)
HTTPException(status_code, detail) == [status |-> status_code, detail |-> detail]

\* SearchResponse(...), status 200
SearchResponse(success, results, count, error) ==
    [status |-> 200, success |-> success, results |-> results, count |-> count,
     error |-> error]

Init ==
    /\ MILVUS_ENABLED \in BOOLEAN      \* main.py:83-90: MilvusVectorStore() returned or raised
    /\ store = EmptyMap
    /\ uuids = 0
    /\ tokens = 0
    /\ SESSIONS = EmptyMap
    /\ USERS = [u \in {"admin", "demo"} |-> IF u = "admin" THEN "admin123" ELSE "demo123"]
    /\ USER_DATA = [u \in {"admin", "demo"} |->
                       IF u = "admin"
                       THEN [email |-> "admin@rasa.com", full_name |-> "Administrator"]
                       ELSE [email |-> "demo@rasa.com", full_name |-> "Demo User"]]
    /\ CHAT_HISTORY = EmptyMap
    /\ last = [op |-> "start"]

(***************************************************************************)
(* GET /health (main.py:138-163; the handler is defined twice, with the    *)
(* same body).                                                             *)
(***************************************************************************)
HealthServices == [api |-> "running", llm |-> "configured", milvus |-> "connected"]

health_check ==
    /\ last' = [op |-> "health",
                resp |-> [status |-> 200, health |-> "healthy", services |-> HealthServices]]
    /\ UNCHANGED <<analysisVars, chatVars, uuids>>

(***************************************************************************)
(* What `last` keeps of an analyze request: the request, the transcript id *)
(* in use, the transcript text (the extracted text of a file, None when    *)
(* the extraction raised), what the outbound calls did, and the response.  *)
(***************************************************************************)
AnalyzeTrace(op, req, transcript_id, text, analyzer_called, analysis_result, store_called, store_raised, resp) ==
    [op |-> op, req |-> req, id |-> transcript_id, text |-> text, analyzer_called |-> analyzer_called,
     analysis_result |-> analysis_result, store_called |-> store_called,
     store_raised |-> store_raised, resp |-> resp]

\* StoreCall without the test of MILVUS_ENABLED
StoreCall_FlagOnly(enabled, store_in_db) ==
    IF store_in_db THEN StoreOutcomes ELSE {"skipped"}

\* the outcomes of the store call a handler makes, "skipped" when it makes none
StoreCall(enabled, store_in_db) ==
    IF store_in_db /\ enabled THEN StoreOutcomes ELSE {"skipped"}

(***************************************************************************)
(* POST /analyze/text (main.py:166-216).                                   *)
(***************************************************************************)
\* main.py:195-216: the store call is inside the handler's try; a raise
\* reaches `except Exception` and becomes HTTPException(500)
AnalyzeTextStore(st, sout, transcript_id, transcript, analysis_result) ==
    CASE sout = "ok" ->
           [store |-> store_transcript(st, transcript_id, transcript, analysis_result,
                                       InputType_TEXT),
            resp |-> AnalysisResponse(TRUE, transcript_id, transcript, analysis_result,
                                      None, InputType_TEXT)]
      [] sout = "raise" ->
           [store |-> st, resp |-> HTTPException(500, "store_transcript raised")]
      [] sout = "skipped" ->
           [store |-> st,
            resp |-> AnalysisResponse(TRUE, transcript_id, transcript, analysis_result,
                                      None, InputType_TEXT)]

analyze_text_transcript(transcript, tid, store_in_db) ==
    /\ Falsy(tid) => uuids < MaxUuid
    /\ uuids' = IF Falsy(tid) THEN uuids + 1 ELSE uuids
    /\ LET transcript_id == IF Falsy(tid) THEN Uuid(uuids + 1) ELSE tid
           req == [transcript |-> transcript, transcript_id |-> tid,
                   store_in_db |-> store_in_db]
       IN  \E analysis_result \in analyze_transcript(transcript) :
             IF HasError(analysis_result)
             THEN /\ store' = store
                  /\ last' = AnalyzeTrace("analyze_text", req, transcript_id, transcript, TRUE,
                                 analysis_result, FALSE, FALSE,
                                 AnalysisResponse(FALSE, transcript_id, transcript,
                                     NoAnalysis, analysis_result.error, InputType_TEXT))
             ELSE \E sout \in StoreCall(MILVUS_ENABLED, store_in_db) :
                    LET st == AnalyzeTextStore(store, sout, transcript_id, transcript,
                                               analysis_result)
                    IN  /\ store' = st.store
                        /\ last' = AnalyzeTrace("analyze_text", req, transcript_id, transcript, TRUE,
                                       analysis_result, sout # "skipped", sout = "raise",
                                       st.resp)
    /\ UNCHANGED <<MILVUS_ENABLED, chatVars>>

(***************************************************************************)
(* POST /analyze/file (main.py:219-292).                                   *)
(***************************************************************************)
\* DocumentProcessor.process_file: the extracted text, or ValueError
\* (unsupported format), or ImportError (a reader is not installed)
ExtractionOutcomes ==
    {[raised |-> None, text |-> t] : t \in Transcripts}
        \cup {[raised |-> e, text |-> None] : e \in {"ValueError", "ImportError"}}

StorageWarning == "Analysis completed but not stored in database"

NoTextError == "No text could be extracted from the file"

\* NoTextExtracted without the strip() test: `not transcript_text` alone
NoTextExtracted_NoStrip(transcript_text) == transcript_text = ""

\* main.py:252: not transcript_text or not transcript_text.strip()
NoTextExtracted(transcript_text) == transcript_text \in BlankTexts

\* main.py:265-286: the store call has a try of its own; a raise leaves the
\* store as it was and sets analysis_result["storage_warning"]
AnalyzeFileStore(st, sout, transcript_id, transcript_text, analysis_result, filename) ==
    CASE sout = "ok" ->
           [store |-> store_transcript(st, transcript_id, transcript_text, analysis_result,
                                       "file_" \o Suffix(filename)),
            resp |-> AnalysisResponse(TRUE, transcript_id, transcript_text,
                                      analysis_result, None, InputType_TEXT)]
      [] sout = "raise" ->
           [store |-> st,
            resp |-> AnalysisResponse(TRUE, transcript_id, transcript_text,
                        [analysis_result EXCEPT !.storage_warning = StorageWarning],
                        None, InputType_TEXT)]
      [] sout = "skipped" ->
           [store |-> st,
            resp |-> AnalysisResponse(TRUE, transcript_id, transcript_text,
                                      analysis_result, None, InputType_TEXT)]

analyze_file(filename, tid, store_in_db) ==
    /\ Falsy(tid) => uuids < MaxUuid
    /\ uuids' = IF Falsy(tid) THEN uuids + 1 ELSE uuids
    /\ LET transcript_id == IF Falsy(tid) THEN Uuid(uuids + 1) ELSE tid
           req == [filename |-> filename, transcript_id |-> tid,
                   store_in_db |-> store_in_db]
       IN  \E extracted \in ExtractionOutcomes :
             CASE extracted.raised = "ValueError" ->
                    /\ store' = store
                    /\ last' = AnalyzeTrace("analyze_file", req, transcript_id, None, FALSE,
                                   NoAnalysis, FALSE, FALSE,
                                   HTTPException(400, "ValueError"))
               [] extracted.raised = "ImportError" ->
                    /\ store' = store
                    /\ last' = AnalyzeTrace("analyze_file", req, transcript_id, None, FALSE,
                                   NoAnalysis, FALSE, FALSE,
                                   HTTPException(500, "Missing dependency"))
               [] extracted.raised = None /\ NoTextExtracted(extracted.text) ->
                    /\ store' = store
                    /\ last' = AnalyzeTrace("analyze_file", req, transcript_id,
                                   extracted.text, FALSE, NoAnalysis, FALSE, FALSE,
                                   AnalysisResponse(FALSE, transcript_id, None, NoAnalysis,
                                       NoTextError,
                                       InputType_TEXT))
               [] OTHER ->
                    \E analysis_result \in analyze_transcript(extracted.text),
                       sout \in StoreCall(MILVUS_ENABLED, store_in_db) :
                      LET st == AnalyzeFileStore(store, sout, transcript_id,
                                    extracted.text, analysis_result, filename)
                      IN  /\ store' = st.store
                          /\ last' = AnalyzeTrace("analyze_file", req, transcript_id,
                                         extracted.text, TRUE, analysis_result, sout # "skipped", sout = "raise",
                                         st.resp)
    /\ UNCHANGED <<MILVUS_ENABLED, chatVars>>

(***************************************************************************)
(* POST /search (main.py:295-338).  With the backend disabled vector_store *)
(* is None (main.py:88) and the attribute access at line 308 raises; every *)
(* exception becomes SearchResponse(success=False, ...).                   *)
(***************************************************************************)
search_transcripts(query, top_k) ==
    /\ LET req == [query |-> query, top_k |-> top_k]
       IN  IF MILVUS_ENABLED
           THEN \/ \E results \in search_similar_transcripts(store, query, top_k) :
                      last' = [op |-> "search", req |-> req,
                               resp |-> SearchResponse(TRUE, results, Len(results), None)]
                \/ last' = [op |-> "search", req |-> req,
                            resp |-> SearchResponse(FALSE, <<>>, 0, "search raised")]
           ELSE last' = [op |-> "search", req |-> req,
                         resp |-> SearchResponse(FALSE, <<>>, 0,
                                     "'NoneType' object has no attribute")]
    /\ UNCHANGED <<analysisVars, chatVars, uuids>>

(***************************************************************************)
(* GET /transcript/{transcript_id} (main.py:341-366).  vector_store is     *)
(* used without a test of MILVUS_ENABLED; on None the attribute access at  *)
(* line 352 raises and `except Exception` makes it HTTPException(500).     *)
(***************************************************************************)
LookupIds == {"t1", "t2"}           \* the path parameter transcript_id

get_transcript(transcript_id) ==
    /\ IF MILVUS_ENABLED
       THEN \E out \in StoreOutcomes :
              LET result == get_transcript_by_id(store, transcript_id)
              IN  last' = [op |-> "get_transcript", id |-> transcript_id,
                           lookup |-> out,
                           resp |-> CASE out = "raise" ->
                                           HTTPException(500, "get_transcript_by_id raised")
                                      [] out = "ok" /\ result # <<>> ->
                                           [status |-> 200, success |-> TRUE,
                                            data |-> result[1]]
                                      [] OTHER ->
                                           HTTPException(404, "Transcript not found")]
       ELSE last' = [op |-> "get_transcript", id |-> transcript_id,
                     lookup |-> "no store",
                     resp |-> HTTPException(500, "'NoneType' object has no attribute")]
    /\ UNCHANGED <<analysisVars, chatVars, uuids>>

(***************************************************************************)
(* Sessions (main.py:111-126).                                             *)
(***************************************************************************)
Usernames == {"admin"}                \* request.username
Passwords == {"admin123", "wrong"}    \* request.password

\* the values a request's `session` cookie takes: none, or a token issued
\* before (live or logged out)
Cookies == {None} \cup {Token(n) : n \in 1..tokens}

\* d.get(key, default)
Get(d, key, default) == IF key \in DOMAIN d THEN d[key] ELSE default

\* d[key] = value
Put(d, key, value) == [k \in DOMAIN d \cup {key} |-> IF k = key THEN value ELSE d[k]]

\* Del that leaves the key in place
Del_Keep(d, key) == d

\* del d[key]
Del(d, key) == [k \in DOMAIN d \ {key} |-> d[k]]

\* UsernameTaken without the test: every username is free
UsernameTaken_Never(users, username) == FALSE

\* main.py:105: request.username in USERS
UsernameTaken(users, username) == username \in DOMAIN users

\* POST /register (main.py:103-109)
register(username, password, email, full_name) ==
    /\ LET req == [username |-> username, password |-> password, email |-> email,
                   full_name |-> full_name]
       IN  IF UsernameTaken(USERS, username)
           THEN /\ UNCHANGED <<USERS, USER_DATA>>
                /\ last' = [op |-> "register", req |-> req,
                            resp |-> [status |-> 400, success |-> FALSE,
                                      message |-> "Username already exists"]]
           ELSE /\ USERS' = Put(USERS, username, password)
                /\ USER_DATA' = Put(USER_DATA, username,
                                    [email |-> email, full_name |-> full_name])
                /\ last' = [op |-> "register", req |-> req,
                            resp |-> [status |-> 200, success |-> TRUE,
                                      message |-> "Registration successful"]]
    /\ UNCHANGED <<analysisVars, uuids, tokens, SESSIONS, CHAT_HISTORY>>

\* POST /login (main.py:111-119)
login(username, password) ==
    /\ IF username \in DOMAIN USERS /\ USERS[username] = password
       THEN /\ tokens < MaxTokens
            /\ tokens' = tokens + 1
            /\ SESSIONS' = Put(SESSIONS, Token(tokens + 1), username)
            /\ last' = [op |-> "login", username |-> username, password |-> password,
                        resp |-> [status |-> 200, success |-> TRUE,
                                  set_cookie |-> Token(tokens + 1)]]
       ELSE /\ UNCHANGED <<tokens, SESSIONS>>
            /\ last' = [op |-> "login", username |-> username, password |-> password,
                        resp |-> [status |-> 401, success |-> FALSE, set_cookie |-> None]]
    /\ UNCHANGED <<analysisVars, uuids, USERS, USER_DATA, CHAT_HISTORY>>

\* POST /logout (main.py:121-126)
logout(session) ==
    /\ SESSIONS' = IF session \in DOMAIN SESSIONS THEN Del(SESSIONS, session) ELSE SESSIONS
    /\ last' = [op |-> "logout", session |-> session,
                resp |-> [status |-> 200, success |-> TRUE]]
    /\ UNCHANGED <<analysisVars, uuids, tokens, USERS, USER_DATA, CHAT_HISTORY>>

\* GET / (main.py:128-135): the dashboard, or a redirect to /login
root(session) ==
    /\ last' = [op |-> "root", session |-> session,
                resp |-> IF Falsy(session) \/ session \notin DOMAIN SESSIONS
                         THEN [status |-> 302, location |-> "/login"]
                         ELSE [status |-> 200, location |-> "dashboard.html"]]
    /\ UNCHANGED <<analysisVars, chatVars, uuids>>

(***************************************************************************)
(* ChatAgent, from the specification (4.4, 7): chat returns a result dict  *)
(* (the answer, or an error as a result value) or raises; clear_memory     *)
(* returns.  The answer to a message is a text of the generative model;    *)
(* the model names it after the call it answers.                           *)
(***************************************************************************)
Answer(session_id, message) == "re[" \o session_id \o "]:" \o message

ChatAgentResults(session_id, message) ==
    {[success |-> TRUE, answer |-> Answer(session_id, message), error |-> None],
     [success |-> FALSE, answer |-> None, error |-> "agent error"]}

(***************************************************************************)
(* POST /chat (main.py:396-447).                                           *)
(***************************************************************************)
TitleLimit == 50

LongMessage == "Which of the stored transcripts mention a budget above 10k?"

Messages == {"A", LongMessage}      \* request.message
SessionIds == {"s1", "s2"}    \* request.session_id, when the request carries one

UserMessage(content) == [role |-> "user", content |-> content]

AssistantMessage(content) == [role |-> "assistant", content |-> content]

\* main.py:429
Title(message) ==
    IF Len(message) > TitleLimit THEN SubSeq(message, 1, TitleLimit) \o "..." ELSE message

\* FindChat with the comparison of ids left out: the user's first chat
FindChat_AnyId(chats, chat_id) == IF Len(chats) > 0 THEN 1 ELSE 0

\* main.py:423: the index of the first chat with this id, 0 for None
FindChat(chats, chat_id) ==
    IF \E i \in 1..Len(chats) : chats[i].id = chat_id
    THEN CHOOSE i \in 1..Len(chats) :
            /\ chats[i].id = chat_id
            /\ \A j \in 1..(i - 1) : chats[j].id # chat_id
    ELSE 0

\* AppendTurn that skips a message equal to the user message recorded last
AppendTurn_Dedup(messages, message, answer) ==
    IF Len(messages) >= 2 /\ messages[Len(messages) - 1].content = message
    THEN messages
    ELSE Append(Append(messages, UserMessage(message)), AssistantMessage(answer))

\* main.py:426-427
AppendTurn(messages, message, answer) ==
    Append(Append(messages, UserMessage(message)), AssistantMessage(answer))

\* NewChat that records the answer before the message
NewChat_AnswerFirst(chat_id, message, answer) ==
    [id |-> chat_id, title |-> Title(message),
     messages |-> <<AssistantMessage(answer), UserMessage(message)>>]

\* main.py:430-437
NewChat(chat_id, message, answer) ==
    [id |-> chat_id, title |-> Title(message),
     messages |-> <<UserMessage(message), AssistantMessage(answer)>>]

\* main.py:423-437
SaveTurn(chats, chat_id, message, answer) ==
    LET i == FindChat(chats, chat_id)
    IN  IF i # 0
        THEN [chats EXCEPT ![i].messages = AppendTurn(@, message, answer)]
        ELSE Append(chats, NewChat(chat_id, message, answer))

\* the turns CHAT_HISTORY holds, over all users
RECURSIVE SumLen(_)
SumLen(chats) ==
    IF chats = <<>> THEN 0 ELSE Len(Head(chats).messages) + SumLen(Tail(chats))

RECURSIVE SumOver(_, _)
SumOver(history, users) ==
    IF users = {} THEN 0
    ELSE LET u == CHOOSE u \in users : TRUE
         IN  SumLen(history[u]) + SumOver(history, users \ {u})

TotalTurns == SumOver(CHAT_HISTORY, DOMAIN CHAT_HISTORY) \div 2

\* ChatResponse(...), status 200
ChatResponse(success, answer, error) ==
    [status |-> 200, success |-> success, answer |-> answer, error |-> error]

\* What `last` keeps of a chat request.  after_clear tells whether the request
\* handled just before it was a clear by the same user: "wiped" when that
\* clear dropped chats, "empty" when it found none, "no" otherwise.
\* agent_session_id is the session_id argument of the chat_agent.chat call
\* (main.py:415); token_live tells whether the request's cookie is a key of
\* SESSIONS.
AfterClear(username) ==
    IF last.op = "clear" /\ last.username = username
    THEN IF last.had_history THEN "wiped" ELSE "empty"
    ELSE "no"

ChatTrace(username, token_live, req, agent, agent_session_id, chat_id, resp) ==
    [op |-> "chat", username |-> username, token_live |-> token_live, req |-> req, agent |-> agent,
     agent_session_id |-> agent_session_id, chat_id |-> chat_id,
     after_clear |-> AfterClear(username), resp |-> resp]

chat(message, session_id, session) ==
    LET username == Get(SESSIONS, session, "guest")
        token_live == session \in DOMAIN SESSIONS
        req == [message |-> message, session_id |-> session_id]
    IN  /\ \/ \* chat_agent.chat raised: main.py:441-447 (the response is built from
              \* the exception alone)
              /\ last' = ChatTrace(username, token_live, None, "raised", session_id, None,
                             ChatResponse(FALSE,
                                 "I apologize, but I encountered an error processing your message.",
                                 "chat raised"))
              /\ UNCHANGED <<CHAT_HISTORY, uuids>>
           \/ \* chat_agent.chat returned: main.py:418-439
              \E result \in ChatAgentResults(session_id, message) :
                /\ TotalTurns < MaxTurns
                /\ Falsy(session_id) => uuids < MaxUuid
                /\ uuids' = IF Falsy(session_id) THEN uuids + 1 ELSE uuids
                /\ LET chats == Get(CHAT_HISTORY, username, <<>>)
                       chat_id == IF Falsy(session_id) THEN Uuid(uuids + 1) ELSE session_id
                       answer == IF result.answer = None THEN "" ELSE result.answer
                   IN  /\ CHAT_HISTORY' = Put(CHAT_HISTORY, username,
                                              SaveTurn(chats, chat_id, message, answer))
                       /\ last' = ChatTrace(username, token_live, req, "returned", session_id, chat_id,
                                      ChatResponse(result.success, result.answer,
                                                   result.error))
        /\ UNCHANGED <<analysisVars, tokens, SESSIONS, USERS, USER_DATA>>

\* main.py:454: CHAT_HISTORY.get(username, [])
HistoryOf(history, username) == Get(history, username, <<>>)

\* GET /chat/history (main.py:450-454)
get_chat_history(session) ==
    /\ LET username == Get(SESSIONS, session, "guest")
       IN  last' = [op |-> "history", username |-> username,
                    token_live |-> session \in DOMAIN SESSIONS,
                    resp |-> [status |-> 200, success |-> TRUE,
                              history |-> HistoryOf(CHAT_HISTORY, username)]]
    /\ UNCHANGED <<analysisVars, chatVars, uuids>>

\* ClearHistory that leaves the user's chats in place
ClearHistory_Keep(history, username) == history

\* ClearHistory without the membership test of line 462
ClearHistory_NoTest(history, username) == Put(history, username, <<>>)

\* main.py:462-463
ClearHistory(history, username) ==
    IF username \in DOMAIN history THEN Put(history, username, <<>>) ELSE history

\* ChatAgent.clear_memory, from the specification (4.4): clearing drops the
\* agent's turns and is a no-op success when there are none; it does not raise
ClearMemoryOutcomes == {"returned"}

\* POST /chat/clear (main.py:456-467)
clear_chat(session) ==
    /\ \E outcome \in ClearMemoryOutcomes :
         LET username == Get(SESSIONS, session, "guest")
             had_history == Get(CHAT_HISTORY, username, <<>>) # <<>>
         IN  IF outcome = "returned"
             THEN /\ CHAT_HISTORY' = ClearHistory(CHAT_HISTORY, username)
                  /\ last' = [op |-> "clear", username |-> username,
                              token_live |-> session \in DOMAIN SESSIONS,
                              had_history |-> had_history,
                              resp |-> [status |-> 200, success |-> TRUE,
                                        message |-> "Chat memory cleared"]]
             ELSE \* main.py:465-467: raised before line 461
                  /\ CHAT_HISTORY' = CHAT_HISTORY
                  /\ last' = [op |-> "clear", username |-> username,
                              token_live |-> session \in DOMAIN SESSIONS,
                              had_history |-> had_history,
                              resp |-> [status |-> 200, success |-> FALSE,
                                        message |-> "clear_memory raised"]]
    /\ UNCHANGED <<analysisVars, tokens, SESSIONS, USERS, USER_DATA, uuids>>

NextAnalysis ==
    \/ health_check
    \/ \E t \in Transcripts, tid \in TranscriptIds, s \in BOOLEAN :
          analyze_text_transcript(t, tid, s)
    \/ \E f \in Filenames, tid \in TranscriptIds, s \in BOOLEAN :
          analyze_file(f, tid, s)
    \/ \E q \in Queries, k \in TopKs :
          search_transcripts(q, k)
    \/ \E id \in LookupIds : get_transcript(id)

SpecAnalysis == Init /\ [][NextAnalysis]_vars

NextChat ==
    \/ \E u \in Usernames, p \in Passwords : login(u, p)
    \/ \E c \in Cookies : logout(c)
    \/ \E m \in Messages, sid \in SessionIds, c \in Cookies : chat(m, sid, c)
    \/ \E c \in Cookies : get_chat_history(c)
    \/ \E c \in Cookies : clear_chat(c)

SpecChat == Init /\ [][NextChat]_vars

(***************************************************************************)
(* Accounts: registration, login, logout and the dashboard.                *)
(***************************************************************************)
AccountNames == {"admin", "guest"}        \* request.username
AccountPasswords == {"admin123", "pw"}    \* request.password
Emails == {"g@rasa.com"}                  \* request.email
FullNames == {"G"}                        \* request.full_name

NextAuth ==
    \/ \E u \in AccountNames, p \in AccountPasswords, e \in Emails, n \in FullNames :
          register(u, p, e, n)
    \/ \E u \in AccountNames, p \in AccountPasswords : login(u, p)
    \/ \E c \in Cookies : logout(c)
    \/ \E c \in Cookies : root(c)

SpecAuth == Init /\ [][NextAuth]_vars

(***************************************************************************)
(* Chat requests that carry or omit a session id, from callers with and    *)
(* without an account; a caller may register under any free username.      *)
(***************************************************************************)
GuestNames == {"guest"}                   \* request.username
GuestPasswords == {"pw"}                  \* request.password
GuestMessages == {"A"}                    \* request.message
OptionalSessionIds == {None, "s1"}        \* request.session_id: Optional[str]

NextGuest ==
    \/ \E u \in GuestNames, p \in GuestPasswords, e \in Emails, n \in FullNames :
          register(u, p, e, n)
    \/ \E u \in GuestNames \cup Usernames, p \in GuestPasswords \cup Passwords : login(u, p)
    \/ \E c \in Cookies : logout(c)
    \/ \E m \in GuestMessages, sid \in OptionalSessionIds, c \in Cookies : chat(m, sid, c)
    \/ \E c \in Cookies : get_chat_history(c)
    \/ \E c \in Cookies : clear_chat(c)

SpecGuest == Init /\ [][NextGuest]_vars

Next == NextAnalysis \/ NextChat \/ NextAuth \/ NextGuest

Spec == Init /\ [][Next]_vars

(***************************************************************************)
(* Properties.                                                             *)
(***************************************************************************)
IsAnalyze == last.op \in {"analyze_text", "analyze_file"}

\* C1: with the backend disabled at start-up, every POST /search returns a
\* successful response with an empty result list and count 0, never a failure.
C1_DisabledSearchIsEmptySuccess ==
    (last.op = "search" /\ ~MILVUS_ENABLED)
        => /\ last.resp.success
           /\ last.resp.results = <<>>
           /\ last.resp.count = 0

\* C2: on both analyze endpoints, when the analysis succeeded, storing was
\* requested, the backend is enabled and the store call fails, the response is
\* 200 with success=true and the analysis annotated with a storage warning, and
\* the index is left without the record.
C2_StoreFailureIsPartialSuccess ==
    [][(/\ last'.op \in {"analyze_text", "analyze_file"}
        /\ last'.analyzer_called
        /\ ~HasError(last'.analysis_result)
        /\ last'.req.store_in_db
        /\ MILVUS_ENABLED
        /\ last'.store_raised)
         => /\ last'.resp.status = 200
            /\ last'.resp.success
            /\ last'.resp.analysis.of = last'.analysis_result.of
            /\ last'.resp.analysis.storage_warning # None
            /\ store' = store]_vars

\* C3: on both analyze endpoints, whenever the analyzer returns an error
\* result, the response has success=false and carries that error; an error
\* result is never inside a success=true response.
C3_AnalyzerErrorIsFailure ==
    (IsAnalyze /\ last.analyzer_called /\ HasError(last.analysis_result))
        => /\ last.resp.status = 200
           /\ ~last.resp.success
           /\ last.resp.error = last.analysis_result.error

\* C4: GET /health shows the vector backend as connected if and only if the
\* backend initialised at start-up.
C4_HealthReportsBackend ==
    last.op = "health"
        => (last.resp.services.milvus = "connected" <=> MILVUS_ENABLED)

(***************************************************************************)
(* The conversation recorded for a user under a session id, read off       *)
(* CHAT_HISTORY without the handler's own lookup.                          *)
(***************************************************************************)
ConversationOf(history, username, chat_id) ==
    LET chats == Get(history, username, <<>>)
        S == {i \in 1..Len(chats) : chats[i].id = chat_id}
    IN  IF S = {} THEN <<>>
        ELSE chats[CHOOSE i \in S : \A j \in S : i <= j].messages

\* the (username, chat id) pairs with a chat in the history
ConversationKeys(history) ==
    UNION {{<<u, history[u][i].id>> : i \in 1..Len(history[u])} : u \in DOMAIN history}

\* result.get("answer", "") of the response's result
RecordedAnswer(resp) == IF resp.answer = None THEN "" ELSE resp.answer

\* the step is a chat request whose agent call returned
IsAnsweredChat == last'.op = "chat" /\ last'.agent = "returned"

\* C5: every POST /chat call that the agent answers appends to the conversation
\* of its user and session id exactly user:m then assistant:r, after the turns
\* already there (nothing is reordered, dropped or deduplicated), and only chat
\* and clear requests change the history; so the conversation is m1, r1, m2,
\* r2, ... in arrival order.
C5_TurnsAppendInArrivalOrder ==
    [][/\ IsAnsweredChat =>
            ConversationOf(CHAT_HISTORY', last'.username, last'.chat_id)
                = ConversationOf(CHAT_HISTORY, last'.username, last'.chat_id)
                    \o <<UserMessage(last'.req.message),
                         AssistantMessage(RecordedAnswer(last'.resp))>>
       /\ last'.op \notin {"chat", "clear"} => CHAT_HISTORY' = CHAT_HISTORY]_vars

\* two calls A then B on one session id are recorded in that order
C5_Witness ==
    \E uk \in ConversationKeys(CHAT_HISTORY) :
        LET conv == ConversationOf(CHAT_HISTORY, uk[1], uk[2])
        IN  /\ Len(conv) = 4
            /\ conv[1] = UserMessage("A")
            /\ conv[3] = UserMessage(LongMessage)
            /\ conv[2].role = "assistant" /\ conv[4].role = "assistant"

\* C6: a clear followed by one answered chat(s, C) of the same user leaves that
\* user's history holding the one conversation s with exactly [user:C,
\* assistant:r]: nothing recorded before the clear is visible, and s is the key
\* of the new turn.
C6_ClearThenChat ==
    (last.op = "chat" /\ last.agent = "returned" /\ last.after_clear # "no")
        => LET chats == HistoryOf(CHAT_HISTORY, last.username)
           IN  /\ Len(chats) = 1
               /\ chats[1].id = last.req.session_id
               /\ chats[1].messages = <<UserMessage(last.req.message),
                                        AssistantMessage(RecordedAnswer(last.resp))>>

\* a chat right after a clear that dropped earlier turns
C6_Witness ==
    /\ last.op = "chat" /\ last.agent = "returned"
    /\ last.after_clear = "wiped"
    /\ Len(ConversationOf(CHAT_HISTORY, last.username, last.req.session_id)) = 2

\* C7: a clear drops the turns of the one session it is invoked for and leaves
\* the conversation of every other session unchanged.
C7_ClearTouchesOneSession ==
    [][last'.op = "clear" =>
        Cardinality({uk \in ConversationKeys(CHAT_HISTORY) :
            ConversationOf(CHAT_HISTORY', uk[1], uk[2])
                # ConversationOf(CHAT_HISTORY, uk[1], uk[2])}) <= 1]_vars

\* C8: a clear always returns success and leaves the user's GET /chat/history
\* result empty; a clear for a user with no history (none yet, or cleared
\* before) changes no state, so clearing twice shows what clearing once shows.
C8_ClearIdempotent ==
    [][last'.op = "clear" =>
        /\ last'.resp.success
        /\ HistoryOf(CHAT_HISTORY', last'.username) = <<>>
        /\ HistoryOf(CHAT_HISTORY, last'.username) = <<>>
              => UNCHANGED <<CHAT_HISTORY, SESSIONS, USERS, store>>]_vars

\* a clear of a history that an earlier clear had emptied
C8_Witness ==
    /\ last.op = "clear" /\ last.resp.success
    /\ ~last.had_history
    /\ last.username \in DOMAIN CHAT_HISTORY
    /\ CHAT_HISTORY[last.username] = <<>>

\* the session id a chat id was made from: a uuid stands for an omitted one
SessionIdOf(chat_id) ==
    IF chat_id \in {Uuid(n) : n \in 1..uuids} THEN None ELSE chat_id

\* every answer recorded under a chat id answers a request on that session id
AnswersBelong ==
    \A u \in DOMAIN CHAT_HISTORY : \A i \in 1..Len(CHAT_HISTORY[u]) :
        LET c == CHAT_HISTORY[u][i]
        IN  \A j \in 1..Len(c.messages) :
                c.messages[j].role = "assistant" =>
                    c.messages[j].content \in
                        {""} \cup {Answer(SessionIdOf(c.id), m) : m \in Messages}

\* a user has at most one chat per session id
OneChatPerId ==
    \A u \in DOMAIN CHAT_HISTORY : \A i, j \in 1..Len(CHAT_HISTORY[u]) :
        CHAT_HISTORY[u][i].id = CHAT_HISTORY[u][j].id => i = j

\* C9: chat requests on distinct session ids, handled in any order, do not
\* touch each other's turns: an answered chat changes only the conversation of
\* its own user and session id, a session id names one conversation, and no
\* conversation holds an answer to a request on another session id.
C9_NoCrossContamination ==
    /\ [][IsAnsweredChat =>
            \A uk \in ConversationKeys(CHAT_HISTORY) \cup ConversationKeys(CHAT_HISTORY') :
                uk # <<last'.username, last'.chat_id>> =>
                    ConversationOf(CHAT_HISTORY', uk[1], uk[2])
                        = ConversationOf(CHAT_HISTORY, uk[1], uk[2])]_vars
    /\ [](AnswersBelong /\ OneChatPerId)

\* one user holds turns on two session ids at once
C9_Witness ==
    \E u \in DOMAIN CHAT_HISTORY :
        /\ ConversationOf(CHAT_HISTORY, u, "s1") # <<>>
        /\ ConversationOf(CHAT_HISTORY, u, "s2") # <<>>

\* C10: in every reachable state each recorded conversation is a sequence of
\* pairs: a user message immediately followed by the assistant answer that the
\* same request got.
C10_TurnsNeverInterleave ==
    \A u \in DOMAIN CHAT_HISTORY : \A i \in 1..Len(CHAT_HISTORY[u]) :
        LET c == CHAT_HISTORY[u][i]
        IN  /\ Len(c.messages) % 2 = 0
            /\ \A j \in 1..Len(c.messages) :
                  IF j % 2 = 1
                  THEN /\ c.messages[j].role = "user"
                       /\ c.messages[j + 1].role = "assistant"
                       /\ c.messages[j + 1].content \in
                            {"", Answer(SessionIdOf(c.id), c.messages[j].content)}
                  ELSE c.messages[j].role = "assistant"

\* two requests with the same message on the same session id, both recorded
C10_Witness ==
    \E uk \in ConversationKeys(CHAT_HISTORY) :
        LET conv == ConversationOf(CHAT_HISTORY, uk[1], uk[2])
        IN  /\ Len(conv) = 4
            /\ conv[1] = conv[3]
            /\ conv[2].content # ""

(***************************************************************************)
(* Claims C11 to C20.                                                      *)
(***************************************************************************)
\* C11: a chat turn is all-or-nothing: whenever a POST /chat request ends with
\* a failure response (success=false), the recorded history is exactly what it
\* was before the request; a turn is recorded only for a request that succeeded.
C11_FailedChatRecordsNothing ==
    [][(last'.op = "chat" /\ ~last'.resp.success)
          => CHAT_HISTORY' = CHAT_HISTORY]_vars

\* C12: the ChatAgent is never called with an absent session id: when the
\* request omits session_id the handler makes a fresh key and calls the agent
\* with it, and the key the agent gets is the key the turn is recorded under.
C12_AgentGetsTheRecordedKey ==
    last.op = "chat"
        => /\ last.agent_session_id # None
           /\ last.agent = "returned" => last.agent_session_id = last.chat_id

\* C13: a point lookup whose backend call does not fail has exactly two
\* outcomes in every state, the backend disabled or not: the stored record
\* with success=true, or a 404; an absent record is never a server error.
C13_LookupIsRecordOrNotFound ==
    (last.op = "get_transcript" /\ last.lookup # "raise")
        => IF last.id \in DOMAIN store
           THEN /\ last.resp.status = 200
                /\ last.resp.success
                /\ last.resp.data = store[last.id]
           ELSE last.resp.status = 404

\* the text is empty or whitespace only
IsBlank(text) == text = "" \/ text = " "

\* C14: when the text extracted from an uploaded file is empty or whitespace
\* only, POST /analyze/file returns a structured failure (200, success=false,
\* an extraction-failed message), the analyzer is not invoked and no record is
\* stored.
C14_BlankExtractionIsInputError ==
    [][(last'.op = "analyze_file" /\ IsBlank(last'.text))
          => /\ last'.resp.status = 200
             /\ ~last'.resp.success
             /\ last'.resp.error = "No text could be extracted from the file"
             /\ ~last'.analyzer_called
             /\ ~last'.store_called
             /\ store' = store]_vars

\* a whitespace-only extraction answered with the failure, while the store
\* holds an earlier record
C14_Witness ==
    /\ last.op = "analyze_file" /\ last.text = " "
    /\ last.req.store_in_db /\ MILVUS_ENABLED
    /\ ~last.resp.success
    /\ store # EmptyMap

\* the tag file_<ext> of a filename, the extension taken with or without its dot
ExtensionTags(filename) ==
    IF filename = "a.pdf" THEN {"file_pdf", "file_.pdf"} ELSE {}

\* C15: for an uploaded file with an extension whose extracted text is not
\* empty, with storing requested and the backend enabled, a store call that
\* succeeds creates exactly one record, under the request's transcript id; its
\* source_type is file_<ext>, and the source_type of the response equals the
\* source_type of the stored record.
C15_FileSourceType ==
    [][(/\ last'.op = "analyze_file"
        /\ ExtensionTags(last'.req.filename) # {}
        /\ last'.analyzer_called
        /\ last'.req.store_in_db /\ MILVUS_ENABLED
        /\ ~last'.store_raised)
         => /\ DOMAIN store' = DOMAIN store \cup {last'.id}
            /\ \A i \in DOMAIN store : i # last'.id => store'[i] = store[i]
            /\ store'[last'.id].source_type \in ExtensionTags(last'.req.filename)
            /\ last'.resp.source_type = store'[last'.id].source_type]_vars

\* the source_type an endpoint gives its records: text, or a file tag
IsSourceTypeOf(op, source_type) ==
    IF op = "analyze_text"
    THEN source_type = "text"
    ELSE Len(source_type) >= 5 /\ SubSeq(source_type, 1, 5) = "file_"

\* C16: on both analyze endpoints, with storing requested, the backend enabled
\* and no failure of the store itself: when the analyzer returns an error the
\* transcript's text and source_type are still recorded under its id, with no
\* analysis in the record; in every other case the record stored carries the
\* successful analysis.
C16_FailedAnalysisLeavesAuditRecord ==
    [][(/\ last'.op \in {"analyze_text", "analyze_file"}
        /\ last'.analyzer_called
        /\ last'.req.store_in_db /\ MILVUS_ENABLED
        /\ ~last'.store_raised)
         => /\ last'.id \in DOMAIN store'
            /\ store'[last'.id].transcript_text = last'.text
            /\ IsSourceTypeOf(last'.op, store'[last'.id].source_type)
            /\ IF HasError(last'.analysis_result)
               THEN store'[last'.id].analysis_result.of = None
               ELSE store'[last'.id].analysis_result = last'.analysis_result]_vars

\* C17: a store operation is attempted only when the store flag is set and the
\* backend is enabled; with the backend disabled the store stays empty and an
\* analyze request with the store flag set still gets its successful analysis
\* in a success=true response.
C17_DisabledBackendSkipsStore ==
    /\ ~MILVUS_ENABLED => store = EmptyMap
    /\ IsAnalyze =>
          /\ last.store_called =>
                last.req.store_in_db /\ MILVUS_ENABLED /\ last.analyzer_called
          /\ (/\ ~MILVUS_ENABLED
              /\ last.req.store_in_db
              /\ last.analyzer_called
              /\ ~HasError(last.analysis_result))
               => /\ ~last.store_called
                  /\ last.resp.status = 200
                  /\ last.resp.success
                  /\ last.resp.analysis = last.analysis_result

\* a file analysed with the store flag set while the backend is disabled
C17_Witness ==
    /\ ~MILVUS_ENABLED
    /\ last.op = "analyze_file"
    /\ last.req.store_in_db
    /\ last.analyzer_called /\ ~HasError(last.analysis_result)
    /\ last.resp.success /\ ~last.store_called

\* the session tokens issued so far
IssuedTokens == {Token(n) : n \in 1..tokens}

\* C18: after any sequence of register, login and logout, GET / serves the
\* dashboard exactly to a request whose token is in the session map and
\* redirects every other to /login; every token in the map refers to an
\* existing user; a token enters the map only by a login with a username and
\* its matching password (which no request changes afterwards), is fresh, and
\* keeps its user; a logout removes the token, so that a logged-out token is
\* redirected from then on.
C18_DashboardNeedsLiveSession ==
    /\ [](/\ last.op = "root" =>
                IF last.session \in DOMAIN SESSIONS
                THEN last.resp.status = 200
                ELSE last.resp.status = 302 /\ last.resp.location = "/login"
          /\ \A t \in DOMAIN SESSIONS :
                SESSIONS[t] \in DOMAIN USERS /\ t \in IssuedTokens)
    /\ [][/\ \A t \in DOMAIN SESSIONS' \ DOMAIN SESSIONS :
               /\ last'.op = "login"
               /\ t = last'.resp.set_cookie
               /\ t \notin IssuedTokens
               /\ SESSIONS'[t] = last'.username
               /\ last'.username \in DOMAIN USERS
               /\ USERS[last'.username] = last'.password
          /\ \A t \in DOMAIN SESSIONS \cap DOMAIN SESSIONS' : SESSIONS'[t] = SESSIONS[t]
          /\ \A u \in DOMAIN USERS : u \in DOMAIN USERS' /\ USERS'[u] = USERS[u]
          /\ last'.op = "logout" => last'.session \notin DOMAIN SESSIONS'
          /\ last'.op # "logout" => DOMAIN SESSIONS \subseteq DOMAIN SESSIONS']_vars

\* a request for the dashboard with a token that was logged out
C18_Witness ==
    /\ last.op = "root"
    /\ last.session \in IssuedTokens
    /\ last.session \notin DOMAIN SESSIONS
    /\ last.resp.status = 302

\* C19: registering a username that exists fails (400, success=false) and
\* leaves the user table, the user data and the sessions unchanged; a
\* successful register adds exactly the one new user with the request's
\* password and profile; no request changes the password or the profile of an
\* existing user.
C19_RegisterKeepsExistingUsers ==
    [][/\ last'.op = "register" =>
            IF last'.req.username \in DOMAIN USERS
            THEN /\ last'.resp.status = 400 /\ ~last'.resp.success
                 /\ UNCHANGED <<USERS, USER_DATA, SESSIONS>>
            ELSE /\ last'.resp.status = 200 /\ last'.resp.success
                 /\ DOMAIN USERS' = DOMAIN USERS \cup {last'.req.username}
                 /\ DOMAIN USER_DATA' = DOMAIN USER_DATA \cup {last'.req.username}
                 /\ USERS'[last'.req.username] = last'.req.password
                 /\ USER_DATA'[last'.req.username] =
                       [email |-> last'.req.email, full_name |-> last'.req.full_name]
                 /\ UNCHANGED SESSIONS
       /\ \A u \in DOMAIN USERS :
            /\ u \in DOMAIN USERS' /\ USERS'[u] = USERS[u]
            /\ u \in DOMAIN USER_DATA' /\ USER_DATA'[u] = USER_DATA[u]]_vars

\* a second registration of a registered username, with another password,
\* refused
C19_Witness ==
    /\ last.op = "register" /\ ~last.resp.success
    /\ last.req.username = "guest"
    /\ USERS["guest"] # last.req.password

\* C20: the recorded chat history of a user with an account is changed only by
\* a POST /chat or POST /chat/clear request that carries a live session token
\* of that user; a GET /chat/history request without a live token (no cookie,
\* an unknown or a logged-out token) is answered with the history of "guest",
\* which is the history of no account.
C20_OnlyTheOwnerTouchesAHistory ==
    /\ [][\A u \in DOMAIN USERS :
            HistoryOf(CHAT_HISTORY', u) # HistoryOf(CHAT_HISTORY, u)
                => /\ last'.op \in {"chat", "clear"}
                   /\ last'.token_live
                   /\ last'.username = u]_vars
    /\ []((last.op = "history" /\ ~last.token_live)
            => /\ last.username = "guest" /\ last.username \notin DOMAIN USERS
               /\ last.resp.history = HistoryOf(CHAT_HISTORY, "guest"))

====
